---- MODULE Spec2Model ----
(***************************************************************************)
(* Authentication token lifecycle of RuralRise OS: the Express back end    *)
(* (credential check, token pair issuance, refresh-token rotation and      *)
(* revocation, auth and role middleware) and the browser client (axios     *)
(* interceptors, authService, AuthProvider).                               *)
(*                                                                         *)
(* Time is the server clock in whole seconds, the granularity of a JWT's   *)
(* iat/exp claims.  A signed token is the record of what jsonwebtoken      *)
(* signs: two tokens are the same string exactly when they agree on type,  *)
(* userId, role and iat (exp is iat plus the configured lifetime).         *)
(***************************************************************************)
EXTENDS Integers, FiniteSets, Sequences, TLC

\* ------------------------------------------------------------------ bounds
MaxTime == 2
AccessTtl == 1
RefreshTtl == 2
MaxRecords == 3
NProcs == 2

Procs == 1..NProcs

\* ------------------------------------------------------------------ tokens
NoToken == [type |-> "none", userId |-> "", role |-> "", iat |-> 0, sig |-> FALSE]
GarbageToken == [type |-> "refresh", userId |-> "", role |-> "", iat |-> 0, sig |-> FALSE]

SignToken(userId, role, type, t) ==
  [type |-> type, userId |-> userId, role |-> role, iat |-> t, sig |-> TRUE]

generateAccessToken(userId, role, t) == SignToken(userId, role, "access", t)

generateRefreshToken(userId, role, t) == SignToken(userId, role, "refresh", t)

\* A pair minted for the default role whatever the caller passes.
MutGenerateTokenPair(userId, role, t) ==
  [accessToken |-> generateAccessToken(userId, "LEARNER", t),
   refreshToken |-> generateRefreshToken(userId, "LEARNER", t)]

generateTokenPair(userId, role, t) ==
  [accessToken |-> generateAccessToken(userId, role, t),
   refreshToken |-> generateRefreshToken(userId, role, t)]

Ttl(type) == IF type = "access" THEN AccessTtl ELSE RefreshTtl

\* jwt.verify: the signature is made with the secret of the token's type, and
\* the token is expired from its exp second on.
JwtVerify(token, type, t) ==
  /\ token.sig
  /\ token.type = type
  /\ t < token.iat + Ttl(type)

verifyAccessToken(token, t) == JwtVerify(token, "access", t)

verifyRefreshToken(token, t) == JwtVerify(token, "refresh", t)

\* ------------------------------------------------------------------ store
Hash(pw) == <<"bcrypt", pw>>

SeedUsers ==
  [e \in {"maria", "ops"} |->
     IF e = "maria"
       THEN [id |-> "u1", role |-> "LEARNER", passwordHash |-> Hash("password123")]
       ELSE [id |-> "u2", role |-> "OPERATIONS", passwordHash |-> Hash("password123")]]

Emails == {"maria", "ops", "ghost"}
Passwords == {"password123", "wrong"}
UserIds == {"u1", "u2"}

verifyPassword(pw, hash) == Hash(pw) = hash

\* ------------------------------------------------------------------ responses
Resp(status, error, message) == [status |-> status, error |-> error, message |-> message]

NoResp == Resp(0, "", "")
Ok200 == Resp(200, "", "Success")

\* errorHandler: an AppError answers with its own status, message and err.name
\* (AppError never sets a name, so it is "Error").
AppError(message, status) == Resp(status, "Error", message)

PrismaP2002 == Resp(409, "Conflict", "A record with this value already exists")
PrismaP2025 == Resp(404, "Not Found", "Record not found")
RateLimited == Resp(429, "Too Many Requests", "Too many requests from this IP, please try again later")
NetworkError == Resp(0, "Network Error", "Network Error")

VARIABLES
  now,            \* server clock, seconds
  users,          \* prisma.user: email -> [id, role, passwordHash]
  refreshTokens,  \* prisma.refreshToken: set of [id, token, userId, expiresAt]
  nextId,         \* next record id
  lastActiveAt,   \* prisma.profile.lastActiveAt by user id (-1: never)
  calls,          \* POST /auth/refresh calls in progress on the server
  loginOutcomes,  \* the last response seen for each class of login attempt
  rotations,      \* the successful rotations: [old value, id of the record created]
  lastGate,       \* the last protected request an API consumer made, and its answer
  lastRevoke,     \* the last logout request an API consumer made, and its answer
  lsAccess,       \* localStorage[ruralrise_auth_token]
  lsRefresh,      \* localStorage[ruralrise_refresh_token]
  cookie,         \* the browser's http-only refreshToken cookie for the API
  sendsCookies,   \* whether the API is same-origin, so that cookies travel
  user,           \* AuthProvider: user (its id, "" for null)
  isLoading,      \* AuthProvider: isLoading
  error, \* AuthProvider: error ("" for null)
  redirected,     \* window.location.href was set to /login
  mounted,        \* AuthProvider's effect has run
  reqs            \* the calls made through apiClient

serverVars ==
  <<now, users, refreshTokens, nextId, lastActiveAt, calls, loginOutcomes, rotations, lastGate,
    lastRevoke>>

clientVars == <<lsAccess, lsRefresh, cookie, sendsCookies, user, isLoading, error, redirected, mounted, reqs>>

vars == <<serverVars, clientVars>>

\* localStorage and the cookie jar outlive the page, and the client reads them
\* before any login (AuthProvider's effect, both interceptors): what they hold
\* at start is an input.  It is nothing, or the pair issued to maria at second 0.
SessionTokens == generateTokenPair("u1", "LEARNER", 0)

Reqs == Procs

\* response.data.data of a response that carries none.
NoData == [none |-> TRUE]

NoCredentials == [email |-> "", password |-> ""]

IdleReq ==
  [kind |-> "none", pc |-> "idle", auth |-> NoToken, retry |-> FALSE, resp |-> NoResp,
   sentAt |-> NoToken, refreshes |-> 0, replays |-> 0, rtLive |-> FALSE, op |-> "",
   cred |-> NoCredentials, arg |-> NoToken, data |-> NoData]

\* req.user before requireAuth has set it.
NoUser == [userId |-> "", role |-> ""]

\* An Authorization header "<scheme> <token>[ <tail>]", and none.
NoHeader == [scheme |-> "", token |-> NoToken, tail |-> FALSE]

NoGate ==
  [router |-> "", header |-> NoHeader, token |-> NoToken, resp |-> NoResp, ran |-> FALSE,
   attached |-> NoUser]

NoRevoke == [token |-> NoToken, had |-> FALSE, resp |-> NoResp, n |-> 0]

IdleCall ==
  [pc |-> "idle", token |-> NoToken, body |-> NoToken, storedId |-> 0, storedUserId |-> "",
   newToken |-> NoToken, newAccess |-> NoToken, late |-> FALSE, resp |-> NoResp]

\* Refresh-token values a call has rotated successfully.
Consumed == {r.old : r \in rotations}

FindByToken(token) == {r \in refreshTokens : r.token = token}

HasToken(token) == FindByToken(token) # {}

\* The value is stored, unexpired and verifies: a refresh with it is honoured.
LiveToken(token) ==
  /\ verifyRefreshToken(token, now)
  /\ \E r \in FindByToken(token) : r.expiresAt >= now

Init ==
  /\ now = 0
  /\ users = SeedUsers
  /\ refreshTokens = {}
  /\ nextId = 1
  /\ lastActiveAt = [u \in UserIds |-> -1]
  /\ calls = [p \in Procs |-> IdleCall]
  /\ loginOutcomes = [c \in {"nouser", "wrongpw"} |-> NoResp]
  /\ rotations = {}
  /\ lastGate = NoGate
  /\ lastRevoke = NoRevoke
  /\ lsAccess \in {NoToken, SessionTokens.accessToken}
  /\ lsRefresh \in {NoToken, SessionTokens.refreshToken}
  /\ sendsCookies \in BOOLEAN
  /\ cookie = IF sendsCookies THEN lsRefresh ELSE NoToken
  /\ user = ""
  /\ isLoading = TRUE
  /\ error = ""
  /\ redirected = FALSE
  /\ mounted = FALSE
  /\ reqs = [i \in Reqs |-> IdleReq]

Tick ==
  /\ now < MaxTime
  /\ now' = now + 1
  /\ UNCHANGED <<users, refreshTokens, nextId, lastActiveAt, calls, loginOutcomes, rotations>>

\* ------------------------------------------------------------------ login
\* A login that tells an unknown email from a wrong password.
MutLoginFailure(email, pw) ==
  IF email \notin DOMAIN users
    THEN AppError("User not found", 404)
    ELSE IF ~verifyPassword(pw, users[email].passwordHash)
      THEN AppError("Invalid email or password", 401)
      ELSE NoResp

\* authService.login up to its two early exits (auth.service.ts 87-103),
\* as the response errorHandler sends for it.
LoginFailure(email, pw) ==
  IF email \notin DOMAIN users
    THEN AppError("Invalid email or password", 401)
    ELSE IF ~verifyPassword(pw, users[email].passwordHash)
      THEN AppError("Invalid email or password", 401)
      ELSE NoResp

LoginClass(email, pw) ==
  IF email \notin DOMAIN users THEN "nouser"
  ELSE IF ~verifyPassword(pw, users[email].passwordHash) THEN "wrongpw"
  ELSE "ok"

\* Calls that have passed the lookup and may still insert a record.
Creating == {p \in Procs : calls[p].pc \in {"find", "delete", "create"}}

RoomToCreate == nextId + Cardinality(Creating) <= MaxRecords

\* POST /auth/login: the whole handler.
Login(email, pw) ==
  LET fail == LoginFailure(email, pw) IN
  IF fail # NoResp
    THEN /\ loginOutcomes' = [loginOutcomes EXCEPT ![LoginClass(email, pw)] = fail]
         /\ UNCHANGED <<now, users, refreshTokens, nextId, lastActiveAt, calls, rotations>>
    ELSE LET u == users[email]
             tokens == generateTokenPair(u.id, u.role, now)
         IN /\ RoomToCreate
            /\ IF HasToken(tokens.refreshToken)
                 THEN \* unique constraint on token: P2002, nothing stored
                      UNCHANGED <<refreshTokens, nextId, lastActiveAt>>
                 ELSE /\ refreshTokens' = refreshTokens \cup
                           {[id |-> nextId, token |-> tokens.refreshToken,
                             userId |-> u.id, expiresAt |-> now + RefreshTtl]}
                      /\ nextId' = nextId + 1
                      /\ lastActiveAt' = [lastActiveAt EXCEPT ![u.id] = now]
            /\ UNCHANGED <<now, users, calls, loginOutcomes, rotations>>

\* ------------------------------------------------------------------ logout
\* A revocation that deletes by the owner of the value.
MutRevokeToken(token) == {r \in refreshTokens : r.userId # token.userId}

\* authService.logout: deleteMany where token = value.
RevokeToken(token) == {r \in refreshTokens : r.token # token}

\* POST /auth/logout: cookie first, then body; nothing to do without a token.
LogoutRoute(cookieTok, bodyTok) ==
  LET token == IF cookieTok # NoToken THEN cookieTok ELSE bodyTok
  IN IF token # NoToken THEN RevokeToken(token) ELSE refreshTokens

\* ------------------------------------------------------------------ refresh
\* POST /auth/refresh up to the first await of authService.refreshTokens:
\* validateBody(refreshSchema), cookie-or-body, verifyRefreshToken.
RefreshEntry(cookieTok, bodyTok) ==
  LET token == IF cookieTok # NoToken THEN cookieTok ELSE bodyTok IN
  IF bodyTok = NoToken
    THEN [IdleCall EXCEPT !.pc = "done", !.token = token,
            !.resp = Resp(400, "Validation Error", "refreshToken: Required")]
    ELSE IF ~verifyRefreshToken(token, now)
      THEN [IdleCall EXCEPT !.pc = "done", !.token = token, !.body = bodyTok,
              !.late = token \in Consumed,
              !.resp = AppError("Invalid refresh token", 401)]
      ELSE [IdleCall EXCEPT !.pc = "find", !.token = token, !.body = bodyTok,
              !.late = token \in Consumed]

\* A lookup that reports a missing record as the database would.
MutRtFindStep(c) ==
  LET found == FindByToken(c.token) IN
  IF found = {} \/ (\E r \in found : r.expiresAt < now)
    THEN [c EXCEPT !.pc = "done", !.resp = PrismaP2025]
    ELSE [c EXCEPT !.pc = "delete", !.storedId = (CHOOSE r \in found : TRUE).id,
                   !.storedUserId = (CHOOSE r \in found : TRUE).userId]

\* findUnique({token}) and the check that follows it.
RtFindStep(c) ==
  LET found == FindByToken(c.token) IN
  IF found = {} \/ (\E r \in found : r.expiresAt < now)
    THEN [c EXCEPT !.pc = "done", !.resp = AppError("Refresh token expired or invalid", 401)]
    ELSE [c EXCEPT !.pc = "delete", !.storedId = (CHOOSE r \in found : TRUE).id,
                   !.storedUserId = (CHOOSE r \in found : TRUE).userId]

RtFind(p) ==
  /\ calls[p].pc = "find"
  /\ calls' = [calls EXCEPT ![p] = RtFindStep(calls[p])]
  /\ UNCHANGED <<now, users, refreshTokens, nextId, lastActiveAt, loginOutcomes, rotations>>

\* delete({id}): P2025 when the record is gone; then generateTokenPair.
RtDelete(p) ==
  LET c == calls[p]
      rec == {r \in refreshTokens : r.id = c.storedId}
      tokens == generateTokenPair(c.token.userId, c.token.role, now)
  IN /\ c.pc = "delete"
     /\ IF rec = {}
          THEN /\ calls' = [calls EXCEPT ![p] = [c EXCEPT !.pc = "done", !.resp = PrismaP2025]]
               /\ UNCHANGED refreshTokens
          ELSE /\ refreshTokens' = refreshTokens \ rec
               /\ calls' = [calls EXCEPT ![p] =
                    [c EXCEPT !.pc = "create", !.newToken = tokens.refreshToken,
                              !.newAccess = tokens.accessToken]]
     /\ UNCHANGED <<now, users, nextId, lastActiveAt, loginOutcomes, rotations>>

\* create({token, userId, expiresAt}): P2002 when the value is already stored.
RtCreate(p) ==
  LET c == calls[p] IN
  /\ c.pc = "create"
  /\ IF HasToken(c.newToken)
       THEN /\ calls' = [calls EXCEPT ![p] = [c EXCEPT !.pc = "done", !.resp = PrismaP2002]]
            /\ UNCHANGED <<refreshTokens, nextId, rotations>>
       ELSE /\ refreshTokens' = refreshTokens \cup
                 {[id |-> nextId, token |-> c.newToken, userId |-> c.token.userId,
                   expiresAt |-> now + RefreshTtl]}
            /\ nextId' = nextId + 1
            /\ rotations' = rotations \cup {[old |-> c.token, newId |-> nextId]}
            /\ calls' = [calls EXCEPT ![p] = [c EXCEPT !.pc = "done", !.resp = Ok200]]
  /\ UNCHANGED <<now, users, lastActiveAt, loginOutcomes>>

\* ------------------------------------------------------------------ auth gate
Routers == {"learner", "trainer", "operations"}

\* The Authorization header as requireAuth reads it: nothing when it does not
\* start with 'Bearer ', else split(' ')[1], the field after the first space
\* (what follows a second space is dropped).
BearerToken(h) == IF h.scheme = "Bearer" THEN h.token ELSE NoToken

\* A gate that verifies the signature and not the expiry.
MutRequireAuth(authTok, t) ==
  IF authTok = NoToken
    THEN Resp(401, "Unauthorized", "No token provided")
    ELSE IF ~(authTok.sig /\ authTok.type = "access")
      THEN Resp(401, "Unauthorized", "Invalid or expired token")
      ELSE NoResp

\* requireAuth: NoResp lets the request through to the next handler.
requireAuth(authTok, t) ==
  IF authTok = NoToken
    THEN Resp(401, "Unauthorized", "No token provided")
    ELSE IF ~verifyAccessToken(authTok, t)
      THEN Resp(401, "Unauthorized", "Invalid or expired token")
      ELSE NoResp

\* requireRole(...roles), given the role requireAuth attached ("" for none).
requireRole(roles, role) ==
  IF role = ""
    THEN Resp(401, "Unauthorized", "Authentication required")
    ELSE IF role \notin roles
      THEN Resp(403, "Forbidden", "Insufficient permissions")
      ELSE NoResp

\* A request to a handler of the learner, trainer or operations router.  Each
\* mounts router.use(requireAuth) and nothing else in front of its handlers:
\* requireRole is imported by the three and applied by none.
ProtectedRoute(router, authTok, t) ==
  LET a == requireAuth(authTok, t)
  IN IF a = NoResp
       THEN [resp |-> Ok200, ran |-> TRUE,
             attached |-> [userId |-> authTok.userId, role |-> authTok.role]]
       ELSE [resp |-> a, ran |-> FALSE, attached |-> NoUser]

\* GET /auth/me: requireAuth, then getCurrentUser(req.user.userId).
MeRoute(authTok, t) ==
  LET a == requireAuth(authTok, t) IN
  IF a # NoResp THEN a
  ELSE IF \E e \in DOMAIN users : users[e].id = authTok.userId
    THEN Ok200
    ELSE AppError("User not found", 404)

\* ------------------------------------------------------------------ API consumers
\* Refresh-token values a caller can hold: issued ones (stored, rotated away or
\* just revoked) and a forged one.
KnownTokens ==
  ({r.token : r \in refreshTokens} \cup Consumed \cup {GarbageToken, lastRevoke.token})
    \ {NoToken}

\* Access tokens a caller can hold: none, those issued with a stored refresh
\* token, and a forged one.
KnownAccess ==
  {generateAccessToken(r.token.userId, r.token.role, r.token.iat) : r \in refreshTokens}
    \cup {NoToken, [GarbageToken EXCEPT !.type = "access"]}

ServerOnly(A) == A /\ UNCHANGED <<lastGate, lastRevoke, clientVars>>

SrvTick == ServerOnly(Tick)

ApiLogin == \E e \in Emails, pw \in Passwords : ServerOnly(Login(e, pw))

ApiLoginValid == \E e \in DOMAIN users : ServerOnly(Login(e, "password123"))

ApiLogout ==
  \E t \in KnownTokens :
    /\ refreshTokens' = LogoutRoute(NoToken, t)
    /\ UNCHANGED <<now, users, nextId, lastActiveAt, calls, loginOutcomes, rotations>>
    /\ lastRevoke' = [token |-> t, had |-> HasToken(t), resp |-> Ok200,
                      n |-> 1 - lastRevoke.n]
    /\ UNCHANGED <<lastGate, clientVars>>

ApiRefresh(p) ==
  \E t \in KnownTokens :
    /\ calls[p].pc = "idle"
    /\ RoomToCreate
    /\ calls' = [calls EXCEPT ![p] = RefreshEntry(NoToken, t)]
    /\ UNCHANGED <<now, users, refreshTokens, nextId, lastActiveAt, loginOutcomes, rotations>>
    /\ UNCHANGED <<lastGate, lastRevoke, clientVars>>

\* The same call carrying the token in the refreshToken cookie and no body.
ApiRefreshCookie(p) ==
  \E t \in KnownTokens :
    /\ calls[p].pc = "idle"
    /\ RoomToCreate
    /\ calls' = [calls EXCEPT ![p] = RefreshEntry(t, NoToken)]
    /\ UNCHANGED <<now, users, refreshTokens, nextId, lastActiveAt, loginOutcomes, rotations>>
    /\ UNCHANGED <<lastGate, lastRevoke, clientVars>>

ApiRefreshReturn(p) ==
  /\ calls[p].pc = "done"
  /\ calls' = [calls EXCEPT ![p] = IdleCall]
  /\ UNCHANGED <<now, users, refreshTokens, nextId, lastActiveAt, loginOutcomes, rotations>>
  /\ UNCHANGED <<lastGate, lastRevoke, clientVars>>

\* Authorization headers a caller can send: none, a known token after
\* 'Bearer ' (with or without more text behind it) or after another scheme.
Headers ==
  {NoHeader} \cup
    {[scheme |-> sc, token |-> t, tail |-> tl] :
       sc \in {"Bearer", "Basic"}, t \in KnownAccess \ {NoToken}, tl \in BOOLEAN}

ApiProtected ==
  \E router \in Routers, h \in Headers :
    /\ lastGate' = [router |-> router, header |-> h, token |-> BearerToken(h)]
                      @@ ProtectedRoute(router, BearerToken(h), now)
    /\ UNCHANGED lastRevoke
    /\ UNCHANGED <<now, users, refreshTokens, nextId, lastActiveAt, calls, loginOutcomes, rotations>>
    /\ UNCHANGED clientVars

SrvFind(p) == ServerOnly(RtFind(p))

SrvDelete(p) == ServerOnly(RtDelete(p))

SrvCreate(p) == ServerOnly(RtCreate(p))

\* ------------------------------------------------------------------ client
\* The client state a settled call's continuations read and write.
ClientState ==
  [lsAccess |-> lsAccess, lsRefresh |-> lsRefresh, user |-> user,
   isLoading |-> isLoading, error |-> error, redirected |-> redirected, op |-> ""]

\* A clearing that forgets the refresh slot.
MutRemoveTokens(cs) == [cs EXCEPT !.lsAccess = NoToken]

\* clearAuth, and the same two removeItem calls wherever they are inlined.
RemoveTokens(cs) == [cs EXCEPT !.lsAccess = NoToken, !.lsRefresh = NoToken]

\* A catch block that goes to /login and leaves the tokens in place.
MutRefreshFailed(cs) == [cs EXCEPT !.redirected = TRUE]

\* Response interceptor, catch (refreshError): remove tokens, go to /login.
RefreshFailed(cs) == [RemoveTokens(cs) EXCEPT !.redirected = TRUE]

\* An interceptor that does not look at _retry.
MutIntercept(status, retry, refreshSlot) ==
  IF status = 200 THEN "resolve"
  ELSE IF status = 401
    THEN IF refreshSlot = NoToken THEN "norefresh" ELSE "refresh"
    ELSE "reject"

\* Response interceptor: what it does with a response, given the request's _retry
\* flag and the refresh slot of localStorage.
Intercept(status, retry, refreshSlot) ==
  IF status = 200 THEN "resolve"
  ELSE IF status = 401 /\ ~retry
    THEN IF refreshSlot = NoToken THEN "norefresh" ELSE "refresh"
    ELSE "reject"

\* A logout that removes the tokens only after a successful post.
MutAuthServiceLogout(ok, cs) ==
  IF ok THEN [RemoveTokens(cs) EXCEPT !.op = "resolved"] ELSE [cs EXCEPT !.op = "rejected"]

\* authService.logout: try { post } finally { remove both tokens }; it rejects
\* when the post rejected.
authServiceLogout(ok, cs) ==
  [RemoveTokens(cs) EXCEPT !.op = IF ok THEN "resolved" ELSE "rejected"]

\* AuthProvider.logout after the await: catch logs, finally resets the state.
AuthProviderLogout(ok, cs) ==
  [authServiceLogout(ok, cs) EXCEPT !.user = "", !.isLoading = FALSE, !.op = "resolved"]

\* An initializeAuth whose catch only logs.
MutAuthProviderInit(ok, userId, cs) ==
  IF ok
    THEN [cs EXCEPT !.user = userId, !.isLoading = FALSE, !.op = "resolved"]
    ELSE [cs EXCEPT !.isLoading = FALSE, !.op = "resolved"]

\* initializeAuth after the await of getCurrentUser.
AuthProviderInit(ok, userId, cs) ==
  IF ok
    THEN [cs EXCEPT !.user = userId, !.isLoading = FALSE, !.op = "resolved"]
    ELSE [RemoveTokens(cs) EXCEPT !.isLoading = FALSE, !.op = "resolved"]

\* AuthProvider.refreshUser after the await of getCurrentUser: its catch logs
\* and sets user to null.
AuthProviderRefreshUser(ok, userId, cs) ==
  [cs EXCEPT !.user = IF ok THEN userId ELSE "", !.op = "resolved"]

\* POST /auth/login and /auth/refresh: the data of their success responses.
LoginData(u, tokens) == [user |-> u.id, accessToken |-> tokens.accessToken]

RefreshData(tokens) == [accessToken |-> tokens.accessToken]

\* The error the refresh call of the interceptor rejects with (an AxiosError).
AxiosError(resp) ==
  [resp EXCEPT !.message = IF resp.status = 0 THEN "Network Error"
                           ELSE "Request failed with status code"]

\* authService.login after the await: it reads data.tokens.accessToken and
\* data.tokens.refreshToken, a TypeError when data has no tokens.
authServiceLogin(data, cs) ==
  IF "tokens" \in DOMAIN data
    THEN [cs EXCEPT !.lsAccess = data.tokens.accessToken,
                    !.lsRefresh = data.tokens.refreshToken, !.op = "resolved"]
    ELSE [cs EXCEPT !.op = "rejected"]

\* AuthProvider.login after the await (r.resp, r.data: what the call settled with).
AuthProviderLogin(r, ok, cs) ==
  LET a == IF ok THEN authServiceLogin(r.data, cs) ELSE [cs EXCEPT !.op = "rejected"]
      message == IF ok THEN "Cannot read properties of undefined (reading 'accessToken')"
                 ELSE IF r.resp.message # "" THEN r.resp.message
                 ELSE "Login failed. Please check your credentials."
  IN IF a.op = "resolved"
       THEN [a EXCEPT !.user = r.data.user, !.isLoading = FALSE]
       ELSE [a EXCEPT !.error = message, !.isLoading = FALSE]

\* authService.refreshToken after the await.
authServiceRefreshToken(r, ok, cs) ==
  IF ok THEN [cs EXCEPT !.lsAccess = r.data.accessToken, !.op = "resolved"]
  ELSE [cs EXCEPT !.op = "rejected"]

\* What runs when the call of request r settles (ok: resolved).
Continuation(r, ok, cs) ==
  CASE r.kind = "logout" -> AuthProviderLogout(ok, cs)
    [] r.kind = "init" -> AuthProviderInit(ok, r.auth.userId, cs)
    [] r.kind = "refreshUser" -> AuthProviderRefreshUser(ok, r.auth.userId, cs)
    [] r.kind = "login" -> AuthProviderLogin(r, ok, cs)
    [] r.kind = "refresh" -> authServiceRefreshToken(r, ok, cs)
    [] OTHER -> [cs EXCEPT !.op = IF ok THEN "resolved" ELSE "rejected"]

SetClient(cs) ==
  /\ lsAccess' = cs.lsAccess
  /\ lsRefresh' = cs.lsRefresh
  /\ user' = cs.user
  /\ isLoading' = cs.isLoading
  /\ error' = cs.error
  /\ redirected' = cs.redirected

CookieSent == IF sendsCookies THEN cookie ELSE NoToken

\* Request interceptor: the Authorization header is the stored access token.
Send(i, kind) ==
  reqs' = [reqs EXCEPT ![i] =
    [IdleReq EXCEPT !.kind = kind, !.pc = "sent", !.auth = lsAccess, !.sentAt = lsAccess]]

\* A page calls one of the learner, trainer or operations services.
IssueData(i) ==
  /\ reqs[i].pc = "idle"
  /\ Send(i, "data")
  /\ UNCHANGED <<serverVars, lsAccess, lsRefresh, cookie, sendsCookies, user, isLoading,
                 error, redirected, mounted>>

\* AuthProvider's effect: initializeAuth up to its await.
InitializeAuth(i) ==
  /\ ~mounted
  /\ mounted' = TRUE
  /\ reqs[i].pc = "idle"
  /\ IF lsAccess = NoToken
       THEN /\ isLoading' = FALSE
            /\ UNCHANGED reqs
       ELSE /\ Send(i, "init")
            /\ UNCHANGED isLoading
  /\ UNCHANGED <<serverVars, lsAccess, lsRefresh, cookie, sendsCookies, user, error, redirected>>

\* AuthProvider.logout up to its await.
Logout(i) ==
  /\ mounted
  /\ reqs[i].pc = "idle"
  /\ \A j \in Reqs : reqs[j].kind = "logout" => reqs[j].pc \in {"resolved", "rejected"}
  /\ Send(i, "logout")
  /\ isLoading' = TRUE
  /\ error' = ""
  /\ UNCHANGED <<serverVars, lsAccess, lsRefresh, cookie, sendsCookies, user, redirected, mounted>>

\* AuthProvider.refreshUser up to its await: nothing without a user.
RefreshUser(i) ==
  /\ user # ""
  /\ reqs[i].pc = "idle"
  /\ Send(i, "refreshUser")
  /\ UNCHANGED <<serverVars, lsAccess, lsRefresh, cookie, sendsCookies, user, isLoading,
                 error, redirected, mounted>>

Faults == {"none", "rate", "net"}

\* The answer to request r reaching the server now: the rate limiter, a lost
\* connection, or the route.
Answer(r, fault, router) ==
  CASE fault = "rate" -> RateLimited
    [] fault = "net" -> NetworkError
    [] r.kind = "data" -> ProtectedRoute(router, r.auth, now).resp
    [] r.kind \in {"init", "refreshUser"} -> MeRoute(r.auth, now)
    [] OTHER -> Ok200

\* The response to request i (first attempt or replay) arrives, and the response
\* interceptor and whatever awaits the call run to their next await.
Respond(i) ==
  \E fault \in Faults, router \in Routers :
    LET r == reqs[i]
        resp == Answer(r, fault, router)
        what == Intercept(resp.status, r.retry, lsRefresh)
        served == fault = "none"
        cs0 == ClientState
    IN /\ r.pc \in {"sent", "replay"}
       /\ r.kind \in {"data", "init", "logout", "refreshUser"}
       /\ IF served /\ r.kind = "logout"
            THEN /\ refreshTokens' = LogoutRoute(CookieSent, NoToken)
                 /\ cookie' = NoToken
            ELSE UNCHANGED <<refreshTokens, cookie>>
       /\ CASE what = "refresh" ->
                 \E f2 \in Faults :
                   /\ f2 = "none" => RoomToCreate
                   /\ reqs' = [reqs EXCEPT ![i] =
                        [r EXCEPT !.pc = "refreshing", !.retry = TRUE, !.resp = resp,
                                  !.refreshes = @ + 1,
                                  !.rtLive = LiveToken(IF CookieSent # NoToken THEN CookieSent
                                                       ELSE lsRefresh)]]
                   /\ calls' = [calls EXCEPT ![i] =
                        CASE f2 = "rate" -> [IdleCall EXCEPT !.pc = "done", !.resp = RateLimited]
                          [] f2 = "net" -> [IdleCall EXCEPT !.pc = "done", !.resp = NetworkError]
                          [] OTHER -> RefreshEntry(CookieSent, lsRefresh)]
                   /\ UNCHANGED <<lsAccess, lsRefresh, user, isLoading, error, redirected>>
            [] what = "norefresh" ->
                 LET cs == Continuation(r, FALSE, RefreshFailed(cs0)) IN
                 /\ reqs' = [reqs EXCEPT ![i] =
                      [r EXCEPT !.pc = "rejected", !.retry = TRUE, !.op = cs.op,
                                !.resp = Resp(0, "Error", "No refresh token available")]]
                 /\ SetClient(cs)
                 /\ UNCHANGED calls
            [] OTHER ->
                 LET cs == Continuation(r, what = "resolve", cs0) IN
                 /\ reqs' = [reqs EXCEPT ![i] =
                      [r EXCEPT !.pc = IF what = "resolve" THEN "resolved" ELSE "rejected",
                                !.op = cs.op, !.resp = resp]]
                 /\ SetClient(cs)
                 /\ UNCHANGED calls
       /\ UNCHANGED <<now, users, nextId, lastActiveAt, loginOutcomes, rotations, lastGate,
                      lastRevoke, sendsCookies, mounted>>

\* A replay whose config has lost the _retry mark.
MutRefreshReturn(i) ==
  LET r == reqs[i]
      c == calls[i]
      cs0 == ClientState
  IN /\ r.pc = "refreshing"
     /\ c.pc = "done"
     /\ calls' = [calls EXCEPT ![i] = IdleCall]
     /\ IF c.resp.status = 200
          THEN /\ lsAccess' = c.newAccess
               /\ cookie' = IF sendsCookies THEN c.newToken ELSE cookie
               /\ reqs' = [reqs EXCEPT ![i] =
                    [r EXCEPT !.pc = "replay", !.auth = c.newAccess, !.replays = @ + 1,
                              !.retry = FALSE]]
               /\ UNCHANGED <<lsRefresh, user, isLoading, error, redirected>>
          ELSE LET cs == Continuation([r EXCEPT !.resp = AxiosError(c.resp)], FALSE,
                                       RefreshFailed(cs0)) IN
               /\ reqs' = [reqs EXCEPT ![i] =
                    [r EXCEPT !.pc = "rejected", !.op = cs.op, !.resp = c.resp]]
               /\ SetClient(cs)
               /\ UNCHANGED cookie
     /\ UNCHANGED <<now, users, refreshTokens, nextId, lastActiveAt, loginOutcomes, rotations,
                    lastGate, lastRevoke, sendsCookies, mounted>>

\* A catch that clears the session and never settles the request.
MutRefreshReturnHang(i) ==
  LET r == reqs[i]
      c == calls[i]
      cs0 == ClientState
  IN /\ r.pc = "refreshing"
     /\ c.pc = "done"
     /\ calls' = [calls EXCEPT ![i] = IdleCall]
     /\ IF c.resp.status = 200
          THEN /\ lsAccess' = c.newAccess
               /\ cookie' = IF sendsCookies THEN c.newToken ELSE cookie
               /\ reqs' = [reqs EXCEPT ![i] =
                    [r EXCEPT !.pc = "replay", !.auth = c.newAccess, !.replays = @ + 1]]
               /\ UNCHANGED <<lsRefresh, user, isLoading, error, redirected>>
          ELSE LET cs == Continuation([r EXCEPT !.resp = AxiosError(c.resp)], FALSE,
                                       RefreshFailed(cs0)) IN
               /\ reqs' = [reqs EXCEPT ![i] = [r EXCEPT !.resp = c.resp]]
               /\ SetClient(cs)
               /\ UNCHANGED cookie
     /\ UNCHANGED <<now, users, refreshTokens, nextId, lastActiveAt, loginOutcomes, rotations,
                    lastGate, lastRevoke, sendsCookies, mounted>>

\* The refresh call of request i returns.
RefreshReturn(i) ==
  LET r == reqs[i]
      c == calls[i]
      cs0 == ClientState
  IN /\ r.pc = "refreshing"
     /\ c.pc = "done"
     /\ calls' = [calls EXCEPT ![i] = IdleCall]
     /\ IF c.resp.status = 200
          THEN /\ lsAccess' = c.newAccess
               /\ cookie' = IF sendsCookies THEN c.newToken ELSE cookie
               /\ reqs' = [reqs EXCEPT ![i] =
                    [r EXCEPT !.pc = "replay", !.auth = c.newAccess, !.replays = @ + 1]]
               /\ UNCHANGED <<lsRefresh, user, isLoading, error, redirected>>
          ELSE LET cs == Continuation([r EXCEPT !.resp = AxiosError(c.resp)], FALSE,
                                       RefreshFailed(cs0)) IN
               /\ reqs' = [reqs EXCEPT ![i] =
                    [r EXCEPT !.pc = "rejected", !.op = cs.op, !.resp = c.resp]]
               /\ SetClient(cs)
               /\ UNCHANGED cookie
     /\ UNCHANGED <<now, users, refreshTokens, nextId, lastActiveAt, loginOutcomes, rotations,
                    lastGate, lastRevoke, sendsCookies, mounted>>

\* ------------------------------------------------------------------ client auth calls
NoRefreshError == Resp(0, "Error", "No refresh token available")

\* The response resp to request r of slot i reaches the response interceptor,
\* which runs with whatever awaits the call to their next await; cl is the
\* server's table of refresh calls as the response left it.
Deliver(i, r, resp, cl) ==
  LET what == Intercept(resp.status, r.retry, lsRefresh)
      cs0 == ClientState
  IN CASE what = "refresh" ->
            \E f2 \in Faults :
              /\ f2 = "none" => RoomToCreate
              /\ reqs' = [reqs EXCEPT ![i] =
                   [r EXCEPT !.pc = "refreshing", !.retry = TRUE, !.resp = resp,
                             !.refreshes = @ + 1,
                             !.rtLive = LiveToken(IF CookieSent # NoToken THEN CookieSent
                                                  ELSE lsRefresh)]]
              /\ calls' = [cl EXCEPT ![i] =
                   CASE f2 = "rate" -> [IdleCall EXCEPT !.pc = "done", !.resp = RateLimited]
                     [] f2 = "net" -> [IdleCall EXCEPT !.pc = "done", !.resp = NetworkError]
                     [] OTHER -> RefreshEntry(CookieSent, lsRefresh)]
              /\ UNCHANGED <<lsAccess, lsRefresh, user, isLoading, error, redirected>>
       [] what = "norefresh" ->
            LET cs == Continuation([r EXCEPT !.resp = NoRefreshError], FALSE,
                                   RefreshFailed(cs0)) IN
            /\ reqs' = [reqs EXCEPT ![i] =
                 [r EXCEPT !.pc = "rejected", !.retry = TRUE, !.op = cs.op,
                           !.resp = NoRefreshError]]
            /\ SetClient(cs)
            /\ calls' = cl
       [] OTHER ->
            LET cs == Continuation([r EXCEPT !.resp = resp], what = "resolve", cs0) IN
            /\ reqs' = [reqs EXCEPT ![i] =
                 [r EXCEPT !.pc = IF what = "resolve" THEN "resolved" ELSE "rejected",
                           !.op = cs.op, !.resp = resp]]
            /\ SetClient(cs)
            /\ calls' = cl

\* The credentials typed into the login form: right ones, a wrong password, an
\* unknown email.
LoginInputs ==
  {[email |-> "maria", password |-> "password123"],
   [email |-> "maria", password |-> "wrong"],
   [email |-> "ghost", password |-> "wrong"]}

\* AuthProvider.login up to its await: authService.login posts the credentials.
\* The form submits one login at a time.
LoginCall(i) ==
  \E c \in LoginInputs :
    /\ mounted
    /\ reqs[i].pc = "idle"
    /\ \A j \in Reqs : reqs[j].kind = "login" => reqs[j].pc \in {"resolved", "rejected"}
    /\ reqs' = [reqs EXCEPT ![i] =
         [IdleReq EXCEPT !.kind = "login", !.pc = "sent", !.auth = lsAccess,
                         !.sentAt = lsAccess, !.cred = c]]
    /\ isLoading' = TRUE
    /\ error' = ""
    /\ UNCHANGED <<serverVars, lsAccess, lsRefresh, cookie, sendsCookies, user, redirected,
                   mounted>>

\* The login request of slot i (first attempt or replay) reaches the server:
\* the rate limiter, a lost connection, or POST /auth/login.
LoginServe(i) ==
  \E fault \in Faults :
    LET r == reqs[i]
        e == r.cred.email
        fail == LoginFailure(e, r.cred.password)
        tokens == generateTokenPair(users[e].id, users[e].role, now)
        resp == CASE fault = "rate" -> RateLimited
                  [] fault = "net" -> NetworkError
                  [] fail # NoResp -> fail
                  [] HasToken(tokens.refreshToken) -> PrismaP2002
                  [] OTHER -> Ok200
    IN /\ r.kind = "login" /\ r.pc \in {"sent", "replay"}
       /\ IF fault = "none"
            THEN Login(e, r.cred.password)
            ELSE UNCHANGED <<now, users, refreshTokens, nextId, lastActiveAt, calls,
                             loginOutcomes, rotations>>
       /\ cookie' = IF resp = Ok200 /\ sendsCookies THEN tokens.refreshToken ELSE cookie
       /\ reqs' = [reqs EXCEPT ![i] =
            [r EXCEPT !.pc = "answered", !.resp = resp,
                      !.data = IF resp = Ok200 THEN LoginData(users[e], tokens) ELSE NoData]]
       /\ UNCHANGED <<lastGate, lastRevoke, lsAccess, lsRefresh, sendsCookies, user, isLoading,
                      error, redirected, mounted>>

\* The answer to the login request of slot i arrives.
LoginDeliver(i) ==
  /\ reqs[i].kind = "login" /\ reqs[i].pc = "answered"
  /\ Deliver(i, reqs[i], reqs[i].resp, calls)
  /\ UNCHANGED <<now, users, refreshTokens, nextId, lastActiveAt, loginOutcomes, rotations,
                 lastGate, lastRevoke, cookie, sendsCookies, mounted>>

\* authService.refreshToken(t) up to its await: it posts {refreshToken: t}
\* through apiClient.  t is the stored refresh token or a stale string.
RefreshTokenCall(i) ==
  \E t \in {lsRefresh, GarbageToken} \ {NoToken} :
    /\ reqs[i].pc = "idle"
    /\ reqs' = [reqs EXCEPT ![i] =
         [IdleReq EXCEPT !.kind = "refresh", !.pc = "sent", !.auth = lsAccess,
                         !.sentAt = lsAccess, !.arg = t]]
    /\ UNCHANGED <<serverVars, lsAccess, lsRefresh, cookie, sendsCookies, user, isLoading,
                   error, redirected, mounted>>

\* The refresh request of slot i (first attempt or replay) reaches the server.
RefreshTokenServe(i) ==
  \E fault \in Faults :
    LET r == reqs[i] IN
    /\ r.kind = "refresh" /\ r.pc \in {"sent", "replay"}
    /\ calls[i].pc = "idle"
    /\ fault = "none" => RoomToCreate
    /\ calls' = [calls EXCEPT ![i] =
         CASE fault = "rate" -> [IdleCall EXCEPT !.pc = "done", !.resp = RateLimited]
           [] fault = "net" -> [IdleCall EXCEPT !.pc = "done", !.resp = NetworkError]
           [] OTHER -> RefreshEntry(CookieSent, r.arg)]
    /\ reqs' = [reqs EXCEPT ![i] = [r EXCEPT !.pc = "serving"]]
    /\ UNCHANGED <<now, users, refreshTokens, nextId, lastActiveAt, loginOutcomes, rotations,
                   lastGate, lastRevoke, lsAccess, lsRefresh, cookie, sendsCookies, user,
                   isLoading,
                   error, redirected, mounted>>

\* The answer to the refresh request of slot i arrives.
RefreshTokenReturn(i) ==
  LET r == reqs[i]
      c == calls[i]
      ok == c.resp.status = 200
  IN /\ r.kind = "refresh" /\ r.pc = "serving"
     /\ c.pc = "done"
     /\ cookie' = IF ok /\ sendsCookies THEN c.newToken ELSE cookie
     /\ Deliver(i, [r EXCEPT !.data = IF ok THEN RefreshData([accessToken |-> c.newAccess,
                                                            refreshToken |-> c.newToken])
                                      ELSE NoData],
                c.resp, [calls EXCEPT ![i] = IdleCall])
     /\ UNCHANGED <<now, users, refreshTokens, nextId, lastActiveAt, loginOutcomes, rotations,
                    lastGate, lastRevoke, sendsCookies, mounted>>

\* The login that opened the stored session, and later ones of the same user.
SessionLogin == ServerOnly(Login("maria", "password123"))

\* ------------------------------------------------------------------ specifications
\* The server alone starts from an empty browser.
InitServer == Init /\ lsAccess = NoToken /\ lsRefresh = NoToken /\ ~sendsCookies

\* The registry under API consumers: logins, logouts and refresh calls whose
\* database steps interleave.
RotationNext ==
  \/ SrvTick
  \/ ApiLoginValid
  \/ ApiLogout
  \/ \E p \in Procs : ApiRefresh(p)
  \/ \E p \in Procs : ApiRefreshCookie(p)
  \/ \E p \in Procs : SrvFind(p)
  \/ \E p \in Procs : SrvDelete(p)
  \/ \E p \in Procs : SrvCreate(p)
  \/ \E p \in Procs : ApiRefreshReturn(p)

SpecRotation == InitServer /\ [][RotationNext]_vars

\* Credential check and the gates in front of the handlers.
GateNext ==
  \/ SrvTick
  \/ ApiLogin
  \/ ApiProtected

SpecGate == InitServer /\ [][GateNext]_vars

\* The browser client against the server.
Next ==
  \/ SrvTick
  \/ SessionLogin
  \/ \E i \in Reqs : IssueData(i)
  \/ \E i \in Reqs : InitializeAuth(i)
  \/ \E i \in Reqs : Logout(i)
  \/ \E i \in Reqs : Respond(i)
  \/ \E i \in Reqs : RefreshReturn(i)
  \/ \E p \in Procs : SrvFind(p)
  \/ \E p \in Procs : SrvDelete(p)
  \/ \E p \in Procs : SrvCreate(p)

Spec == Init /\ [][Next]_vars

\* The same, every call that is in flight being answered in the end: the
\* network returns each request, refresh call and replay, and the server ends
\* each database step.
SpecLive ==
  /\ Init
  /\ [][Next]_vars
  /\ \A i \in Reqs : WF_vars(Respond(i)) /\ WF_vars(RefreshReturn(i))
  /\ \A p \in Procs : WF_vars(SrvFind(p)) /\ WF_vars(SrvDelete(p)) /\ WF_vars(SrvCreate(p))

\* The Session Manager's login against the server, with a stored session.
LoginNext ==
  \/ SrvTick
  \/ SessionLogin
  \/ \E i \in Reqs : InitializeAuth(i)
  \/ \E i \in Reqs : Respond(i)
  \/ \E i \in Reqs : LoginCall(i)
  \/ \E i \in Reqs : LoginServe(i)
  \/ \E i \in Reqs : LoginDeliver(i)
  \/ \E i \in Reqs : RefreshReturn(i)
  \/ \E p \in Procs : SrvFind(p)
  \/ \E p \in Procs : SrvDelete(p)
  \/ \E p \in Procs : SrvCreate(p)

SpecLogin == Init /\ [][LoginNext]_vars

\* AuthProvider.refreshUser against the server, after a startup that set the user.
RefreshUserNext ==
  \/ SrvTick
  \/ SessionLogin
  \/ \E i \in Reqs : InitializeAuth(i)
  \/ \E i \in Reqs : RefreshUser(i)
  \/ \E i \in Reqs : Respond(i)
  \/ \E i \in Reqs : RefreshReturn(i)
  \/ \E p \in Procs : SrvFind(p)
  \/ \E p \in Procs : SrvDelete(p)
  \/ \E p \in Procs : SrvCreate(p)

SpecRefreshUser == Init /\ [][RefreshUserNext]_vars

\* authService.refreshToken against the server.
RefreshCallNext ==
  \/ SrvTick
  \/ SessionLogin
  \/ \E i \in Reqs : RefreshTokenCall(i)
  \/ \E i \in Reqs : RefreshTokenServe(i)
  \/ \E i \in Reqs : RefreshTokenReturn(i)
  \/ \E i \in Reqs : RefreshReturn(i)
  \/ \E p \in Procs : SrvFind(p)
  \/ \E p \in Procs : SrvDelete(p)
  \/ \E p \in Procs : SrvCreate(p)

SpecRefreshCall == Init /\ [][RefreshCallNext]_vars

\* ------------------------------------------------------------------ claims
\* Request i was sent with a signed access token and its first attempt was
\* answered 401.
Got401(i) ==
  /\ reqs[i].kind = "data"
  /\ reqs[i].retry
  /\ reqs[i].sentAt.sig

\* ... and a refresh token was there when the 401 was handled.
Expired401(i) == Got401(i) /\ reqs[i].resp.message # "No refresh token available"

\* C1: two protected requests sent with the same expired access token and both
\* answered 401 cause exactly one call to the refresh endpoint between them.
C1_SingleFlight ==
  \A i, j \in Reqs :
    (i # j /\ Expired401(i) /\ Expired401(j) /\ reqs[i].sentAt = reqs[j].sentAt)
      => reqs[i].refreshes + reqs[j].refreshes = 1

EnvFault(i) == reqs[i].resp \in {RateLimited, NetworkError}

\* C2: two protected requests sent in parallel with the same expired access
\* token, while the session's refresh token is live and with no network fault
\* and no further expiry, are neither of them rejected (and so the client is not
\* logged out).
C2_AllSucceed ==
  \A i, j \in Reqs :
    (/\ i # j /\ Got401(i) /\ Got401(j) /\ reqs[i].sentAt = reqs[j].sentAt
     /\ reqs[i].rtLive \/ reqs[j].rtLive
     /\ ~EnvFault(i) /\ ~EnvFault(j)
     /\ now = reqs[i].sentAt.iat + AccessTtl)
      => (reqs[i].pc # "rejected" /\ reqs[j].pc # "rejected" /\ ~redirected)

\* C3: a refreshTokens call that starts after a call on the same value has
\* succeeded does not succeed (the claim: it is answered 401).
C3_PredecessorInvalid ==
  \A p \in Procs :
    (calls[p].pc = "done" /\ calls[p].late) => calls[p].resp.status # 200

\* C4: at most one successor record is ever created from one predecessor value.
C4_OneSuccessor ==
  \A r1, r2 \in rotations : r1.old = r2.old => r1 = r2

\* C5: of two calls racing on the same value (both sent in the body, so both
\* reach refreshTokens), the one that loses is answered with the 401 of an
\* invalid or expired refresh token, no other error class.
C5_LoserIs401 ==
  \A p, q \in Procs :
    (/\ p # q
     /\ calls[p].pc = "done" /\ calls[q].pc = "done"
     /\ calls[p].token = calls[q].token
     /\ calls[p].body # NoToken /\ calls[q].body # NoToken
     /\ ~calls[p].late
     /\ calls[q].resp.status = 200
     /\ calls[p].resp.status # 200)
      => calls[p].resp.status = 401

\* C6: once a refreshTokens call has deleted its record, exactly one of the old
\* and the new value is in the store (taken where the two values differ, the
\* rotation being in a later second than the issuance).
C6_AtomicRotation ==
  \A p \in Procs :
    (/\ calls[p].pc = "create" \/ (calls[p].pc = "done" /\ calls[p].newToken # NoToken)
     /\ calls[p].newToken # calls[p].token)
      => (HasToken(calls[p].token) # HasToken(calls[p].newToken))

\* The roles the spec lets into each router.
C7_Allowed(router) ==
  CASE router = "learner" -> {"LEARNER"}
    [] router = "trainer" -> {"TRAINER"}
    [] router = "operations" -> {"OPERATIONS"}
    [] OTHER -> {}

\* C7: a request that passed authentication with a role outside the router's
\* allowed set is answered 403 and its handler does not run.
C7_RoleGate ==
  (/\ lastGate.router \in Routers
   /\ lastGate.token.sig
   /\ lastGate.resp.status # 401
   /\ lastGate.token.role \notin C7_Allowed(lastGate.router))
    => (lastGate.resp.status = 403 /\ ~lastGate.ran)

\* C8: the answer to a login with an unknown email and the answer to a login
\* with a wrong password are the same 401, and a failing login changes neither
\* the users, the refresh tokens nor the profiles.
C8_Indistinguishable ==
  /\ [](\A c \in {"nouser", "wrongpw"} :
          loginOutcomes[c] # NoResp =>
            /\ loginOutcomes[c].status = 401
            /\ \A d \in {"nouser", "wrongpw"} :
                 loginOutcomes[d] # NoResp => loginOutcomes[d] = loginOutcomes[c])
  /\ [][loginOutcomes' # loginOutcomes =>
          UNCHANGED <<users, refreshTokens, nextId, lastActiveAt>>]_vars

C8_Witness ==
  /\ loginOutcomes["nouser"] # NoResp
  /\ loginOutcomes["wrongpw"] # NoResp
  /\ refreshTokens # {}

LogoutCompletes(i) ==
  /\ reqs[i].kind = "logout"
  /\ reqs[i].pc \notin {"idle", "resolved", "rejected"}
  /\ reqs'[i].pc \in {"resolved", "rejected"}

\* C9: the step that completes logout() leaves user null, loading false and both
\* token slots empty, and logout() resolves, whatever the network call did.
C9_LogoutUnconditional ==
  [][\A i \in Reqs :
       LogoutCompletes(i) =>
         /\ user' = ""
         /\ ~isLoading'
         /\ lsAccess' = NoToken
         /\ lsRefresh' = NoToken
         /\ reqs'[i].op = "resolved"]_vars

\* logout() has completed on a failed network call, after initializeAuth had
\* set the user and with a token stored when it was called.
C9_Witness ==
  \E i, j \in Reqs :
    /\ reqs[j].kind = "init" /\ reqs[j].pc = "resolved"
    /\ reqs[i].kind = "logout" /\ reqs[i].pc = "rejected"
    /\ reqs[i].resp = NetworkError
    /\ reqs[i].sentAt # NoToken
    /\ user = "" /\ ~isLoading /\ lsAccess = NoToken /\ lsRefresh = NoToken

\* C10: a request makes at most one refresh call and is replayed at most once,
\* and a replay that is answered 401 ends the request: its caller gets that
\* error.
C10_AtMostOneRetry ==
  \A i \in Reqs :
    /\ reqs[i].refreshes <= 1
    /\ reqs[i].replays <= 1
    /\ reqs[i].replays = 1 => reqs[i].pc \in {"replay", "resolved", "rejected"}
    /\ (reqs[i].replays = 1 /\ reqs[i].pc = "rejected") =>
         /\ reqs[i].resp.status # 200
         /\ reqs[i].kind = "data" => reqs[i].op = "rejected"

C10_Witness ==
  \E i \in Reqs :
    /\ reqs[i].kind = "data"
    /\ reqs[i].refreshes = 1 /\ reqs[i].replays = 1
    /\ reqs[i].pc = "rejected" /\ reqs[i].op = "rejected"
    /\ reqs[i].resp = Resp(401, "Unauthorized", "Invalid or expired token")

\* The refresh that request i was waiting on fails in this step: its call to the
\* refresh endpoint returns an error, or there is no refresh token to send.
RefreshFails(i) ==
  \/ /\ reqs[i].pc = "refreshing"
     /\ calls[i].pc = "done" /\ calls[i].resp.status # 200
     /\ reqs'[i] # reqs[i]
  \/ /\ reqs[i].pc \in {"sent", "replay"}
     /\ ~reqs[i].retry /\ reqs'[i].retry
     /\ reqs'[i].pc # "refreshing"

\* C11: the step in which a request's refresh fails empties both token slots,
\* rejects the request without replaying it and goes to the login path; a
\* rejected request is never taken up again.
C11_RefreshFailureLogsOut ==
  [][\A i \in Reqs :
       /\ RefreshFails(i) =>
            /\ lsAccess' = NoToken /\ lsRefresh' = NoToken
            /\ redirected'
            /\ reqs'[i].pc = "rejected"
            /\ reqs'[i].replays = reqs[i].replays
            /\ reqs[i].kind = "data" => reqs'[i].op = "rejected"
       /\ reqs[i].pc = "rejected" => reqs'[i] = reqs[i]]_vars

C11_Witness ==
  \E i \in Reqs :
    /\ reqs[i].kind = "data" /\ reqs[i].pc = "rejected" /\ reqs[i].op = "rejected"
    /\ reqs[i].refreshes = 1 /\ reqs[i].replays = 0
    /\ reqs[i].resp = AppError("Refresh token expired or invalid", 401)
    /\ redirected /\ lsAccess = NoToken /\ lsRefresh = NoToken

\* C12: once a refresh has failed (the client has gone to the login path), no
\* step of the client makes another call to the refresh endpoint.
C12_HardStop ==
  [][redirected => \A i \in Reqs : reqs'[i].refreshes = reqs[i].refreshes]_vars

\* A request sent with the session's token got its 401 after another request's
\* refresh had failed, and made no refresh call.
C12_Witness ==
  \E i, j \in Reqs :
    /\ i # j /\ redirected
    /\ reqs[j].kind = "data" /\ reqs[j].pc = "rejected" /\ reqs[j].refreshes = 1
    /\ reqs[i].kind = "data" /\ reqs[i].pc = "rejected" /\ reqs[i].sentAt.sig
    /\ reqs[i].refreshes = 0
    /\ reqs[i].resp.message = "No refresh token available"

\* C16: a refresh request that carries a signed refresh token, in the cookie or
\* in the body, is not refused as malformed: the cookie alone does what the
\* body alone does.
C16_CookieOrBody ==
  \A p \in Procs :
    (calls[p].pc = "done" /\ calls[p].token.sig) => calls[p].resp.status # 400

\* C20: the step in which a logout call is answered with success leaves no
\* record of the refresh token the session held (in localStorage or in the
\* cookie) in the registry.
C20_LogoutRevokes ==
  [][\A i \in Reqs :
       (LogoutCompletes(i) /\ reqs'[i].resp = Ok200) =>
         \A r \in refreshTokens' : r.token \notin {lsRefresh, cookie}]_vars

\* Request i was sent with the access token that an earlier request j obtained
\* by its refresh, j is over and nothing else is in flight: i meets the
\* session's next expiry on its own.
NextExpiry(i) ==
  /\ reqs[i].kind = "data" /\ reqs[i].sentAt.sig
  /\ \E j \in Reqs \ {i} :
       /\ reqs[j].kind = "data" /\ reqs[j].pc = "resolved" /\ reqs[j].replays = 1
       /\ reqs[i].sentAt = reqs[j].auth
  /\ \A j \in Reqs \ {i} : reqs[j].pc \in {"idle", "resolved", "rejected"}
  /\ \A j \in Reqs : reqs[j].kind # "logout"

\* The record that succeeded the value is stored, unexpired and verifies.
SuccessorLive(token) ==
  \E rot \in rotations :
    /\ rot.old = token
    /\ \E r \in refreshTokens :
         r.id = rot.newId /\ r.expiresAt >= now /\ verifyRefreshToken(r.token, now)

\* C19: at the session's second expiry, met by a single request, with the
\* rotated refresh token live on the server, the refresh call the client makes
\* succeeds.
C19_SurvivesExpiries ==
  \A i \in Reqs :
    (/\ NextExpiry(i)
     /\ reqs[i].pc = "refreshing" /\ calls[i].pc = "done"
     /\ SuccessorLive(calls[i].token))
      => calls[i].resp.status = 200

\* C15: no call the client makes to the refresh endpoint carries a refresh
\* token in its body: client code holds none to build a body from.
C15_NoClientRefreshToken ==
  \A i \in Reqs : calls[i].body = NoToken

\* C13: the answer to a login call, a 401 for invalid credentials included,
\* goes to the caller as it is: the interceptor starts no refresh cycle for it
\* (no refresh call, no clearing of the tokens, no redirect).
C13_OnlyProtected401 ==
  \A i \in Reqs :
    reqs[i].kind = "login" =>
      /\ ~reqs[i].retry
      /\ reqs[i].refreshes = 0

LoginCompletes(i) ==
  /\ reqs[i].kind = "login"
  /\ reqs[i].pc \notin {"idle", "resolved", "rejected"}
  /\ reqs'[i].pc \in {"resolved", "rejected"}

\* C17: the step in which login() completes on the server's success response
\* stores the issued access token, sets user to the returned identity, leaves
\* error null and loading false.
C17_LoginSuccess ==
  [][\A i \in Reqs :
       (LoginCompletes(i) /\ reqs'[i].resp.status = 200) =>
         /\ lsAccess' = reqs'[i].data.accessToken
         /\ user' = reqs'[i].data.user
         /\ error' = ""
         /\ ~isLoading'
         /\ reqs'[i].op = "resolved"]_vars

\* C18: the step in which login() fails while a user is set and both tokens of
\* the session are stored sets error, ends loading, and leaves user, the stored
\* tokens and the page where they were.
C18_LoginFailureKeepsSession ==
  [][\A i \in Reqs :
       (LoginCompletes(i) /\ reqs'[i].op = "rejected" /\ reqs'[i].resp.status # 200
          /\ user # "" /\ lsAccess # NoToken /\ lsRefresh # NoToken) =>
         /\ error' # ""
         /\ ~isLoading'
         /\ user' = user
         /\ lsAccess' = lsAccess /\ lsRefresh' = lsRefresh
         /\ redirected' = redirected]_vars

\* C14: a call of authService.refreshToken that fails is not followed by
\* another call to the refresh endpoint: the interceptor makes no refresh call
\* of its own for it and does not send it again.
C14_RefreshNeverRetried ==
  \A i \in Reqs :
    reqs[i].kind = "refresh" => (reqs[i].refreshes = 0 /\ reqs[i].replays = 0)

\* C21: a logout of a value that is not in the registry is answered with
\* success and leaves the registry as it was; a logout removes no record but
\* those with its value, and a second logout of the value would remove nothing.
C21_RevocationIdempotent ==
  [][lastRevoke' # lastRevoke =>
       LET t == lastRevoke'.token IN
       /\ lastRevoke'.resp.status = 200
       /\ ~HasToken(t) => refreshTokens' = refreshTokens
       /\ refreshTokens' \subseteq refreshTokens
       /\ refreshTokens \ refreshTokens' = FindByToken(t)
       /\ \A r \in refreshTokens' : r.token # t]_vars

\* The second logout of an issued value that no rotation consumed: the first
\* had revoked it, and the registry holds other records.
C21_Witness ==
  /\ lastRevoke.token.sig
  /\ lastRevoke.token \notin Consumed
  /\ ~lastRevoke.had
  /\ lastRevoke.n = 0
  /\ lastRevoke.resp = Ok200
  /\ refreshTokens # {}

\* C22: a protected handler runs only for a header that starts with 'Bearer '
\* and whose token is signed with the access secret and unexpired, and with the
\* token's subject id and role attached to the request; no header, another
\* scheme, a bad signature and an expired token are answered 401 and the
\* handler does not run; the last two get one and the same response.
C22_FailsClosed ==
  [][lastGate' # lastGate =>
       LET g == lastGate'
           tok == g.header.token
           verifies == tok.sig /\ tok.type = "access" /\ now < tok.iat + AccessTtl
       IN /\ g.ran =>
               /\ g.header.scheme = "Bearer" /\ verifies
               /\ g.attached = [userId |-> tok.userId, role |-> tok.role]
               /\ g.attached.userId # ""
          /\ (g.header.scheme # "Bearer" \/ ~verifies) =>
               /\ g.resp.status = 401 /\ ~g.ran /\ g.attached = NoUser
          /\ (g.header.scheme = "Bearer" /\ ~verifies) =>
               g.resp = Resp(401, "Unauthorized", "Invalid or expired token")]_vars

\* The last request carried an issued access token after 'Bearer ', past its
\* expiry, and was refused.
C22_Witness ==
  /\ lastGate.header.scheme = "Bearer"
  /\ lastGate.header.token.sig
  /\ now >= lastGate.header.token.iat + AccessTtl
  /\ lastGate.resp = Resp(401, "Unauthorized", "Invalid or expired token")
  /\ ~lastGate.ran

InitCompletes(i) ==
  /\ reqs[i].kind = "init"
  /\ reqs[i].pc \notin {"idle", "resolved", "rejected"}
  /\ reqs'[i].pc \in {"resolved", "rejected"}

\* C23: the step in which initializeAuth ends on a failed fetch of the current
\* user leaves both token slots empty, user null and loading false, and
\* surfaces no error (error keeps its value, null unless a login was made
\* meanwhile); with no stored access token the effect makes no call and ends
\* with user null and loading false.
C23_StartupFailure ==
  [][/\ \A i \in Reqs :
          (InitCompletes(i) /\ reqs'[i].pc = "rejected") =>
            /\ lsAccess' = NoToken /\ lsRefresh' = NoToken
            /\ user' = ""
            /\ ~isLoading'
            /\ error' = error
            /\ (\A j \in Reqs : reqs[j].kind # "login") => error' = ""
     /\ (~mounted /\ mounted' /\ lsAccess = NoToken) =>
          /\ reqs' = reqs /\ calls' = calls
          /\ user' = "" /\ ~isLoading' /\ error' = ""]_vars

\* initializeAuth found a stored access token, its fetch got no answer, and it
\* has ended.
C23_Witness ==
  \E i \in Reqs :
    /\ reqs[i].kind = "init" /\ reqs[i].pc = "rejected"
    /\ reqs[i].sentAt.sig
    /\ reqs[i].resp = NetworkError
    /\ lsAccess = NoToken /\ lsRefresh = NoToken
    /\ user = "" /\ ~isLoading /\ error = ""

RefreshUserCompletes(i) ==
  /\ reqs[i].kind = "refreshUser"
  /\ reqs[i].pc \notin {"idle", "resolved", "rejected"}
  /\ reqs'[i].pc \in {"resolved", "rejected"}

\* C24: the step in which refreshUser ends on a failed fetch of the current
\* user, both tokens of the session being stored until then, leaves user null
\* and both token slots empty.
C24_RefreshUserClears ==
  [][\A i \in Reqs :
       (RefreshUserCompletes(i) /\ reqs'[i].pc = "rejected"
          /\ lsAccess # NoToken /\ lsRefresh # NoToken) =>
         /\ user' = ""
         /\ lsAccess' = NoToken
         /\ lsRefresh' = NoToken]_vars

\* C25: a refreshTokens call goes past its lookup only if the value verified
\* when the call began and the registry, at the lookup, holds a record with that
\* value that is not expired; a call that does not is answered 401 in that very
\* step, with the registry unchanged; and only a call that went past its lookup
\* is answered with success.
C25_OnlyLiveRecord ==
  [][\A p \in Procs :
       LET c == calls[p]
           d == calls'[p]
           stored == \E r \in refreshTokens : r.token = c.token /\ r.expiresAt >= now
       IN /\ (c.pc = "idle" /\ d.pc = "find") =>
               (d.token.sig /\ d.token.type = "refresh" /\ now < d.token.iat + RefreshTtl)
          /\ (c.pc = "idle" /\ d.pc = "done" /\ d.body # NoToken) =>
               /\ ~(d.token.sig /\ d.token.type = "refresh" /\ now < d.token.iat + RefreshTtl)
               /\ d.resp.status = 401
               /\ refreshTokens' = refreshTokens
          /\ (c.pc = "find" /\ d.pc # "find") =>
               IF stored
                 THEN d.pc = "delete"
                 ELSE d.pc = "done" /\ d.resp.status = 401 /\ refreshTokens' = refreshTokens
          /\ (d.resp.status = 200 /\ c.resp.status # 200) => c.pc = "create"
          /\ c.pc \in {"delete", "create"} => c.token.sig]_vars

\* A refresh with a value that a logout had revoked was refused at the lookup,
\* while other refreshes had succeeded.
C25_Witness ==
  \E p \in Procs :
    /\ calls[p].pc = "done"
    /\ calls[p].token = lastRevoke.token /\ lastRevoke.had
    /\ calls[p].token \notin Consumed
    /\ calls[p].resp = AppError("Refresh token expired or invalid", 401)
    /\ rotations # {}

\* C26: the step in which a refreshTokens call succeeds stores one new record,
\* holding the call's new value and bound to the owner of the record the call
\* consumed, and the access token the call returns carries that owner's id and
\* the role the owner has in the user table.
C26_RotationKeepsOwner ==
  [][\A p \in Procs :
       (calls[p].pc = "create" /\ calls'[p].resp.status = 200) =>
         LET d == calls'[p] IN
         /\ \E r \in refreshTokens' \ refreshTokens :
              /\ refreshTokens' = refreshTokens \cup {r}
              /\ r.token = d.newToken
              /\ r.userId = d.storedUserId
         /\ d.newAccess.userId = d.storedUserId
         /\ \E e \in DOMAIN users :
              users[e].id = d.storedUserId /\ users[e].role = d.newAccess.role
         /\ d.newAccess.sig /\ d.newAccess.type = "access"]_vars

\* A refresh by the operations user has succeeded, in a later second than the
\* login, while a learner holds a record too.
C26_Witness ==
  \E p \in Procs :
    /\ calls[p].pc = "done" /\ calls[p].resp = Ok200
    /\ calls[p].storedUserId = "u2"
    /\ calls[p].newAccess.role = "OPERATIONS"
    /\ calls[p].newToken # calls[p].token
    /\ \E r \in refreshTokens : r.token = calls[p].newToken /\ r.userId = "u2"
    /\ \E r \in refreshTokens : r.userId = "u1"

\* The calls to the refresh endpoint the interceptor has made, one pair per
\* call of each request.
RefreshCalls == {ik \in Reqs \X (1 .. MaxRecords + 2) : ik[2] <= reqs[ik[1]].refreshes}

\* C27: a request makes a refresh call only after a 401 and makes one at most,
\* so the refresh calls made are never more than the requests that got a 401;
\* and a refresh call on the server belongs to the request waiting for it.
C27_RefreshBound ==
  /\ \A i \in Reqs : reqs[i].refreshes <= (IF reqs[i].retry THEN 1 ELSE 0)
  /\ Cardinality(RefreshCalls) <= Cardinality({i \in Reqs : reqs[i].retry})
  /\ \A i \in Reqs : calls[i].pc # "idle" => reqs[i].pc = "refreshing"

\* Every request has got a 401 and made its refresh call; one was replayed and
\* resolved, another was replayed, got a 401 again and was rejected.
C27_Witness ==
  /\ \A i \in Reqs : reqs[i].refreshes = 1 /\ reqs[i].pc \in {"resolved", "rejected"}
  /\ \E i \in Reqs : reqs[i].replays = 1 /\ reqs[i].pc = "resolved"
  /\ \E i \in Reqs :
       reqs[i].replays = 1 /\ reqs[i].pc = "rejected" /\ reqs[i].resp.status = 401

Pending(i) == reqs[i].pc \in {"sent", "refreshing", "replay"}

Settled(i) == reqs[i].pc \in {"resolved", "rejected"}

\* C28: a request that is in flight is settled in the end; the return of its
\* refresh call, success or failure, leaves it replayed or rejected, never
\* waiting; and a settled request does not change again.
C28_EventuallySettles ==
  /\ \A i \in Reqs : Pending(i) ~> Settled(i)
  /\ [][\A i \in Reqs :
          /\ Settled(i) => reqs'[i] = reqs[i]
          /\ (reqs[i].pc = "refreshing" /\ calls[i].pc = "done" /\ calls'[i].pc = "idle") =>
               reqs'[i].pc \in {"replay", "rejected"}]_vars

\* One request was replayed after its refresh and resolved; another was
\* rejected when its refresh failed.
C28_Witness ==
  \E i, j \in Reqs :
    /\ reqs[i].pc = "resolved" /\ reqs[i].refreshes = 1 /\ reqs[i].replays = 1
    /\ reqs[j].pc = "rejected" /\ reqs[j].refreshes = 1 /\ reqs[j].replays = 0
    /\ reqs[j].resp.status = 401

\* C29: no login is answered with the conflict of a refresh-token value that is
\* already stored: two issuances never produce the same value.
C29_UniqueValues ==
  \A i \in Reqs : reqs[i].kind = "login" => reqs[i].resp.status # 409

\* C30: a refresh call that has removed its record ends by adding one record,
\* bound to the same owner, and touches no other record: no refresh call
\* lowers an identity's record count, only a logout does.
C30_RotationFrame ==
  [][\A p \in Procs :
       (calls[p].pc = "create" /\ calls'[p].pc = "done") =>
         /\ refreshTokens \subseteq refreshTokens'
         /\ \E r \in refreshTokens' \ refreshTokens :
              /\ refreshTokens' = refreshTokens \cup {r}
              /\ r.userId = calls[p].storedUserId]_vars
====
